---- MODULE Spec2Model ----
(***************************************************************************)
(* Model of the chat gateway: the Flask routes of src/App.py               *)
(* (POST /api/chat, POST /api/count_tokens) and the provider adapter       *)
(* ClaudeClient.send_message of src/claude_client.py.                      *)
(*                                                                         *)
(* Representation of Python/JSON data                                      *)
(*   - a JSON scalar is a record [t, n]: t is the JSON/Python type tag and *)
(*     n its number. An int carries its value; a float carries its value   *)
(*     in tenths (0.5 is n = 5, 3.7 is n = 37); a bool carries 0 or 1 (it  *)
(*     is an int subclass in Python); a str or list carries its length.    *)
(*   - a text is a sequence of tokens; " " is the whitespace token, so     *)
(*     str.strip() is computed, not assumed.                               *)
(*   - a history entry is a record [role, content, extra]; "extra" stands  *)
(*     for any further key the caller put in the entry.                    *)
(***************************************************************************)
EXTENDS Integers, Sequences, FiniteSets, TLC

(* ------------------------------------------------------------------ *)
(* Bounds of the model                                                 *)
(* ------------------------------------------------------------------ *)

\* longest conversation_history a request carries
MaxHistLen == 2

\* how many of the five optional request fields a request sets at once
MaxFieldsSet == 2

(* ------------------------------------------------------------------ *)
(* JSON values                                                         *)
(* ------------------------------------------------------------------ *)

Absent == [t |-> "absent", n |-> 0]

JNull == [t |-> "null", n |-> 0]

JInt(i) == [t |-> "int", n |-> i]

JFloat(tenths) == [t |-> "float", n |-> tenths]

JBool(b) == [t |-> "bool", n |-> IF b THEN 1 ELSE 0]

JStr(len) == [t |-> "str", n |-> len]

JList(len) == [t |-> "list", n |-> len]

\* dict.get(key, default): the default only when the key is absent
dict_get(v, default) == IF v.t = "absent" THEN default ELSE v

\* the classes of a value, as isinstance sees them (bool is a subclass of int)
PyTypes(v) ==
    CASE v.t = "int" -> {"int"}
      [] v.t = "bool" -> {"bool", "int"}
      [] v.t = "float" -> {"float"}
      [] v.t = "str" -> {"str"}
      [] v.t = "list" -> {"list"}
      [] OTHER -> {"NoneType"}

isinstance(v, types) == PyTypes(v) \cap types # {}

\* Python truthiness: None, 0, 0.0, False, "" and [] are false
Truthy(v) == v.t \notin {"absent", "null"} /\ v.n # 0

\* the numeric value of an int, bool or float, in tenths
Tenths(v) == IF v.t = "float" THEN v.n ELSE v.n * 10

\* min(a, b) and max(a, b) of Python: the first of equal arguments is returned
py_min(a, b) == IF Tenths(b) < Tenths(a) THEN b ELSE a

py_max(a, b) == IF Tenths(b) > Tenths(a) THEN b ELSE a

\* int(x) truncates toward zero
Trunc(tenths) == IF tenths >= 0 THEN tenths \div 10 ELSE -((-tenths) \div 10)

\* type(value)(clamped): the constructor of value's own class applied to clamped
type_call(t, x) ==
    CASE t = "int" -> JInt(Trunc(Tenths(x)))
      [] t = "bool" -> JBool(Tenths(x) # 0)
      [] OTHER -> JFloat(Tenths(x))

(* ------------------------------------------------------------------ *)
(* Texts                                                               *)
(* ------------------------------------------------------------------ *)

RECURSIVE lstrip(_)
lstrip(s) == IF s # <<>> /\ Head(s) = " " THEN lstrip(Tail(s)) ELSE s

RECURSIVE rstrip(_)
rstrip(s) ==
    IF s # <<>> /\ s[Len(s)] = " " THEN rstrip(SubSeq(s, 1, Len(s) - 1)) ELSE s

\* str.strip()
strip(s) == rstrip(lstrip(s))

(* ------------------------------------------------------------------ *)
(* constants.py                                                        *)
(* ------------------------------------------------------------------ *)

MAX_TOKENS == 1024

HTTP_OK == 200

HTTP_BAD_REQUEST == 400

HTTP_TOO_MANY_REQUESTS == 429

HTTP_INTERNAL_SERVER_ERROR == 500

HTTP_SERVICE_UNAVAILABLE == 503

OUTPUT_FORMAT_DEFAULT == "default"

VALID_OUTPUT_FORMATS == {"default", "json", "xml"}

ERROR_EMPTY_MESSAGE == <<"ERROR_EMPTY_MESSAGE">>

ERROR_INVALID_API_KEY == <<"ERROR_INVALID_API_KEY">>

ERROR_RATE_LIMIT == <<"ERROR_RATE_LIMIT">>

ERROR_CONNECTION == <<"ERROR_CONNECTION">>

(* ------------------------------------------------------------------ *)
(* prompts.py                                                          *)
(* ------------------------------------------------------------------ *)

SPEC_END_MARKER == <<"SPEC_END_MARKER">>

\* get_system_prompt(output_format, spec_mode): strict, an unrecognized format
\* raises ValueError; spec_mode does not change the text
get_system_prompt(output_format, spec_mode) ==
    CASE output_format = "default" -> [raises |-> FALSE, text |-> <<"base">>]
      [] output_format = "json" -> [raises |-> FALSE, text |-> <<"base", "json">>]
      [] output_format = "xml" -> [raises |-> FALSE, text |-> <<"base", "xml">>]
      [] OTHER -> [raises |-> TRUE, text |-> <<"unsupported format">>]

\* get_user_message(text): trims leading and trailing whitespace
get_user_message(text) == strip(text)

(* ------------------------------------------------------------------ *)
(* App.py: pure helpers                                                *)
(* ------------------------------------------------------------------ *)

\* the role/content test both message builders apply to a history entry
EntryOk(msg) == msg.role \in {"user", "assistant"} /\ msg.content # <<>>

RECURSIVE build_history(_)
build_history(h) ==
    IF h = <<>> THEN <<>>
    ELSE (IF EntryOk(Head(h))
          THEN <<[role |-> Head(h).role, content |-> Head(h).content]>>
          ELSE <<>>) \o build_history(Tail(h))

build_messages(conversation_history, user_message) ==
    build_history(conversation_history)
        \o <<[role |-> "user", content |-> user_message]>>

validate_and_clamp(value, default, min_val, max_val, value_type) ==
    IF value_type # {} /\ ~isinstance(value, value_type) THEN default
    ELSE IF min_val # JNull /\ max_val # JNull
         THEN LET clamped == py_max(min_val, py_min(max_val, value))
              IN  IF isinstance(value, {"int", "float"})
                  THEN type_call(value.t, clamped)
                  ELSE clamped
         ELSE value

(* ------------------------------------------------------------------ *)
(* anthropic exceptions, as imported by claude_client.py               *)
(* ------------------------------------------------------------------ *)

\* the classes an exception of class cls is an instance of
ExceptionMro(cls) ==
    CASE cls = "AuthenticationError" ->
            {"AuthenticationError", "APIStatusError", "APIError", "Exception"}
      [] cls = "RateLimitError" ->
            {"RateLimitError", "APIStatusError", "APIError", "Exception"}
      [] cls = "BadRequestError" ->
            {"BadRequestError", "APIStatusError", "APIError", "Exception"}
      [] cls = "APIConnectionError" ->
            {"APIConnectionError", "APIError", "Exception"}
      [] cls = "APITimeoutError" ->
            {"APITimeoutError", "APIConnectionError", "APIError", "Exception"}
      [] OTHER -> {cls, "Exception"}

(* ------------------------------------------------------------------ *)
(* claude_client.py: ClaudeClient.send_message                         *)
(* ------------------------------------------------------------------ *)

validate_output_format(output_format) == output_format \in VALID_OUTPUT_FORMATS

\* the history loop without the role test
RECURSIVE send_message_history_any_role(_)
send_message_history_any_role(h) ==
    IF h = <<>> THEN <<>>
    ELSE (IF Head(h).content # <<>>
          THEN <<[role |-> Head(h).role, content |-> Head(h).content]>>
          ELSE <<>>) \o send_message_history_any_role(Tail(h))

\* the history loop of send_message
RECURSIVE send_message_history(_)
send_message_history(h) ==
    IF h = <<>> THEN <<>>
    ELSE (IF Head(h).role \in {"user", "assistant"} /\ Head(h).content # <<>>
          THEN <<[role |-> Head(h).role, content |-> Head(h).content]>>
          ELSE <<>>) \o send_message_history(Tail(h))

NoParams ==
    [sent |-> FALSE, max_tokens |-> JNull, system |-> <<>>, messages |-> <<>>,
     temperature |-> JNull, has_stop_sequences |-> FALSE, stop_sequences |-> <<>>]

\* a (reply, error, status, usage) tuple; has_reply / has_error are "is not None"
Result(has_reply, reply, has_error, error, status_code, has_usage) ==
    [has_reply |-> has_reply, reply |-> reply, has_error |-> has_error,
     error |-> error, status_code |-> status_code, has_usage |-> has_usage]

\* whether spec mode attaches the stop sequence
AttachStop(spec_mode) == Truthy(spec_mode)

\* send_message up to the provider call: either an early return or api_params
send_message_prepare(user_message, output_format, max_tokens, spec_mode, conversation_history, temperature) ==
    LET fmt == IF ~validate_output_format(output_format)
               THEN OUTPUT_FORMAT_DEFAULT ELSE output_format
        system_prompt == get_system_prompt(fmt, spec_mode)
        clean_user_message == get_user_message(user_message)
        messages ==
            (IF conversation_history # <<>>
             THEN send_message_history(conversation_history) ELSE <<>>)
                \o <<[role |-> "user", content |-> clean_user_message]>>
    IN  IF system_prompt.raises
        THEN [early |-> TRUE,
              result |-> Result(FALSE, <<>>, TRUE, system_prompt.text,
                                HTTP_INTERNAL_SERVER_ERROR, FALSE),
              api_params |-> NoParams]
        ELSE [early |-> FALSE,
              result |-> Result(FALSE, <<>>, FALSE, <<>>, 0, FALSE),
              api_params |->
                  [sent |-> TRUE, max_tokens |-> max_tokens,
                   system |-> system_prompt.text, messages |-> messages,
                   temperature |-> temperature,
                   has_stop_sequences |-> AttachStop(spec_mode),
                   stop_sequences |-> IF AttachStop(spec_mode)
                                      THEN <<SPEC_END_MARKER>> ELSE <<>>]]

\* the except clauses with the generic APIError clause moved to the front
HandlersGenericFirst ==
    <<"APIError", "AuthenticationError", "RateLimitError", "APIConnectionError",
      "Exception">>

\* the except clauses of send_message, in source order
Handlers ==
    <<"AuthenticationError", "RateLimitError", "APIConnectionError",
      "APIError", "Exception">>

\* the first except clause that matches an exception of class cls
except_clause(cls) ==
    Handlers[CHOOSE i \in 1..Len(Handlers) :
                /\ Handlers[i] \in ExceptionMro(cls)
                /\ \A j \in 1..(i - 1) : Handlers[j] \notin ExceptionMro(cls)]

\* what the matching except clause returns; detail is str(e)
handle_exception(cls, detail) ==
    LET clause == except_clause(cls)
    IN  CASE clause = "AuthenticationError" ->
                Result(FALSE, <<>>, TRUE, ERROR_INVALID_API_KEY,
                       HTTP_INTERNAL_SERVER_ERROR, FALSE)
          [] clause = "RateLimitError" ->
                Result(FALSE, <<>>, TRUE, ERROR_RATE_LIMIT,
                       HTTP_TOO_MANY_REQUESTS, FALSE)
          [] clause = "APIConnectionError" ->
                Result(FALSE, <<>>, TRUE, ERROR_CONNECTION,
                       HTTP_SERVICE_UNAVAILABLE, FALSE)
          [] clause = "APIError" ->
                Result(FALSE, <<>>, TRUE, <<"API_ERROR_PREFIX">> \o detail,
                       HTTP_INTERNAL_SERVER_ERROR, FALSE)
          [] OTHER ->
                Result(FALSE, <<>>, TRUE, <<"SERVER_ERROR_PREFIX">> \o detail,
                       HTTP_INTERNAL_SERVER_ERROR, FALSE)

\* send_message after the provider call returned `content` (a list of texts)
send_message_returned(content) ==
    IF content = <<>>
    THEN handle_exception("IndexError", <<"list index out of range">>)
    ELSE Result(TRUE, content[1], FALSE, <<>>, 200, TRUE)

(* ------------------------------------------------------------------ *)
(* history_compression.py and token_counter.py                         *)
(* ------------------------------------------------------------------ *)

\* the turn compress_history may put in place of the turns it drops
SummaryTurn == [role |-> "user", content |-> <<"summary">>, extra |-> "none"]

\* should_compress(history): a fixed policy on the size of the history whose
\* threshold is internal; every answer the policy may give for this history
should_compress(history) == IF history = <<>> THEN {FALSE} ELSE BOOLEAN

\* compress_history(history): a strictly shorter history; the most recent turns
\* kept verbatim and in order, the oldest one dropped or the two oldest
\* replaced by one summary turn
compress_history(history) ==
    LET n == Len(history)
        recent(k) == SubSeq(history, n - k + 1, n)
    IN  {recent(n - 1)}
            \cup (IF n >= 2 THEN {<<SummaryTurn>> \o recent(n - 2)} ELSE {})

RECURSIVE content_tokens(_)
content_tokens(messages) ==
    IF messages = <<>> THEN 0
    ELSE Len(Head(messages).content) + content_tokens(Tail(messages))

\* TokenCounter.count_tokens(system_prompt, messages): the estimate, or a
\* counting failure that propagates to the caller
TokenCounter_count_tokens(system_prompt, messages) ==
    {[raises |-> FALSE, n |-> Len(system_prompt) + content_tokens(messages)],
     [raises |-> TRUE, n |-> 0]}

(* ------------------------------------------------------------------ *)
(* Requests and provider outcomes                                      *)
(* ------------------------------------------------------------------ *)

Messages ==
    {[t |-> "absent", s |-> <<>>], [t |-> "null", s |-> <<>>],
     [t |-> "str", s |-> <<>>], [t |-> "str", s |-> <<" ">>],
     [t |-> "str", s |-> <<"hi">>], [t |-> "str", s |-> <<" ", "hi", " ">>]}

AbsentStr == [t |-> "absent", s |-> ""]

OutputFormats == {[t |-> "str", s |-> f] : f \in {"json", "xml", "yaml"}}

MaxTokensValues ==
    {JNull, JInt(-5), JInt(128), JInt(2000), JInt(4096), JInt(100000),
     JBool(TRUE), JFloat(2565), JStr(3)}

TemperatureValues ==
    {JNull, JInt(-5), JInt(1), JFloat(-5), JFloat(5), JFloat(37), JBool(TRUE),
     JBool(FALSE), JStr(3)}

SpecModeValues == {JBool(TRUE), JBool(FALSE), JInt(1), JStr(4)}

\* history entries: two valid turns (one with a further key), a turn with a
\* role the provider does not take, and a turn with empty content
Entries ==
    {[role |-> "user", content |-> <<"q">>, extra |-> "timestamp"],
     [role |-> "assistant", content |-> <<"a">>, extra |-> "none"],
     [role |-> "system", content |-> <<"s">>, extra |-> "none"],
     [role |-> "user", content |-> <<>>, extra |-> "none"]}

AbsentHistory == [t |-> "absent", items |-> <<>>]

Histories ==
    {[t |-> "str", items |-> <<>>]}
        \cup {[t |-> "list", items |-> h] :
                h \in UNION {[1..k -> Entries] : k \in 0..MaxHistLen}}

OptionalFields ==
    {"output_format", "max_tokens", "temperature", "spec_mode",
     "conversation_history"}

\* the requests that set exactly the optional fields in S
RequestsSetting(S) ==
    [message : Messages,
     output_format : IF "output_format" \in S THEN OutputFormats ELSE {AbsentStr},
     max_tokens : IF "max_tokens" \in S THEN MaxTokensValues ELSE {Absent},
     temperature : IF "temperature" \in S THEN TemperatureValues ELSE {Absent},
     spec_mode : IF "spec_mode" \in S THEN SpecModeValues ELSE {Absent},
     conversation_history :
        IF "conversation_history" \in S THEN Histories ELSE {AbsentHistory}]

Requests ==
    UNION {RequestsSetting(S) :
            S \in {T \in SUBSET OptionalFields : Cardinality(T) <= MaxFieldsSet}}

\* a TokenCountRequest carries no max_tokens and no temperature
CountRequests == {d \in Requests : d.max_tokens = Absent /\ d.temperature = Absent}

NoRequest ==
    [message |-> [t |-> "absent", s |-> <<>>], output_format |-> AbsentStr,
     max_tokens |-> Absent, temperature |-> Absent, spec_mode |-> Absent,
     conversation_history |-> AbsentHistory]

\* what messages.create returns: the texts of the content blocks
Contents == {<<>>, << <<>> >>, << <<"reply">> >>}

\* what messages.create raises: a class and str(e)
Raised ==
    {[cls |-> c, detail |-> <<"detail">>] :
        c \in {"AuthenticationError", "RateLimitError", "APIConnectionError",
               "APITimeoutError", "BadRequestError", "RuntimeError"}}

(* ------------------------------------------------------------------ *)
(* State                                                               *)
(* ------------------------------------------------------------------ *)

VARIABLES
    pc,          \* "idle", "upstream" (messages.create in flight), "done"
    route,       \* "none", "chat", "count_tokens"
    data,        \* request.get_json()
    call,        \* the arguments chat passed to send_message, and chat's locals
    api_params,  \* the request send_message built for messages.create
    outcome,     \* what messages.create did
    counted,     \* the arguments count_tokens passed to TokenCounter
    calls,       \* how often each downstream operation was invoked
    response     \* the HTTP response

vars == <<pc, route, data, call, api_params, outcome, counted, calls, response>>

NoCall ==
    [made |-> FALSE, user_message |-> <<>>, output_format |-> "",
     max_tokens |-> JNull, spec_mode |-> JNull, conversation_history |-> <<>>,
     temperature |-> JNull, original_history_len |-> 0, compress |-> FALSE]

NoOutcome == [kind |-> "none", cls |-> "", detail |-> <<>>, content |-> <<>>]

NoCounted == [called |-> FALSE, system_prompt |-> <<>>, messages |-> <<>>]

NoCalls ==
    [send_message |-> 0, should_compress |-> 0, compress_history |-> 0,
     count_tokens |-> 0, create |-> 0]

NoResponse ==
    [status |-> 0, keys |-> {}, reply |-> <<>>, error |-> <<>>,
     compression_applied |-> FALSE, compressed_history |-> <<>>,
     input_tokens |-> 0]

\* jsonify({'error': text}), status
ErrorResponse(text, status) ==
    [NoResponse EXCEPT !.status = status, !.keys = {"error"}, !.error = text]

\* an exception no handler catches: the framework's 500 page, no JSON body
UnhandledResponse == [NoResponse EXCEPT !.status = HTTP_INTERNAL_SERVER_ERROR]

Init ==
    /\ pc = "idle"
    /\ route = "none"
    /\ data = NoRequest
    /\ call = NoCall
    /\ api_params = NoParams
    /\ outcome = NoOutcome
    /\ counted = NoCounted
    /\ calls = NoCalls
    /\ response = NoResponse

(* ------------------------------------------------------------------ *)
(* App.py: POST /api/chat                                              *)
(* ------------------------------------------------------------------ *)

\* data.get('message', '')
message_of(d) == dict_get(d.message, [t |-> "str", s |-> <<>>])

\* validate_chat_request without the strip
validate_chat_request_no_strip(d) ==
    IF message_of(d).s = <<>>
    THEN [is_valid |-> FALSE, error_message |-> ERROR_EMPTY_MESSAGE]
    ELSE [is_valid |-> TRUE, error_message |-> <<>>]

validate_chat_request(d) ==
    IF strip(message_of(d).s) = <<>>
    THEN [is_valid |-> FALSE, error_message |-> ERROR_EMPTY_MESSAGE]
    ELSE [is_valid |-> TRUE, error_message |-> <<>>]

\* spec_mode taken from the request without the isinstance test
chat_spec_mode_unchecked(d) == dict_get(d.spec_mode, JBool(FALSE))

\* spec_mode as chat normalises it
chat_spec_mode(d) ==
    IF isinstance(dict_get(d.spec_mode, JNull), {"bool"})
    THEN dict_get(d.spec_mode, JBool(FALSE))
    ELSE JBool(FALSE)

\* conversation_history as both routes normalise it
history_of(d) ==
    IF d.conversation_history.t = "list" THEN d.conversation_history.items ELSE <<>>

\* chat building the success body without looking at the adapter's error
chat_respond_ignoring_error(result, conversation_history, original_history_len) ==
    [NoResponse EXCEPT
        !.status = HTTP_OK,
        !.keys = {"reply", "compression_applied"},
        !.reply = result.reply]

\* chat from the return of send_message to its own return
chat_respond(result, conversation_history, original_history_len) ==
    IF result.has_error
    THEN ErrorResponse(result.error, result.status_code)
    ELSE IF Len(conversation_history) # original_history_len
         THEN [NoResponse EXCEPT
                 !.status = HTTP_OK,
                 !.keys = {"reply", "compressed_history", "compression_applied"}
                            \cup (IF result.has_usage THEN {"usage"} ELSE {}),
                 !.reply = result.reply,
                 !.compressed_history = conversation_history,
                 !.compression_applied = TRUE]
         ELSE [NoResponse EXCEPT
                 !.status = HTTP_OK,
                 !.keys = {"reply", "compression_applied"}
                            \cup (IF result.has_usage THEN {"usage"} ELSE {}),
                 !.reply = result.reply,
                 !.compression_applied = FALSE]

\* chat keeping the request's history although the compressor ran
chat_history_uncompressed(history, compress, compressed) == history

\* the history chat hands to send_message, given the compressor's answers
chat_history(history, compress, compressed) ==
    IF compress THEN compressed ELSE history

\* chat up to the provider call (or to its return, when no call is made)
chat ==
    /\ pc = "idle"
    /\ \E d \in Requests :
        /\ route' = "chat"
        /\ data' = d
        /\ outcome' = NoOutcome
        /\ counted' = NoCounted
        /\ IF d.message.t = "null"
           THEN \* None.strip() raises AttributeError outside any try
                /\ response' = UnhandledResponse
                /\ pc' = "done"
                /\ UNCHANGED <<call, api_params, calls>>
           ELSE IF ~validate_chat_request(d).is_valid
           THEN /\ response' = ErrorResponse(validate_chat_request(d).error_message,
                                             HTTP_BAD_REQUEST)
                /\ pc' = "done"
                /\ UNCHANGED <<call, api_params, calls>>
           ELSE \E sc \in should_compress(history_of(d)) :
                \E ch \in (IF sc THEN compress_history(history_of(d)) ELSE {<<>>}) :
                LET user_message == message_of(d).s
                    output_format ==
                        dict_get(d.output_format, [t |-> "str", s |-> "default"]).s
                    max_tokens ==
                        validate_and_clamp(dict_get(d.max_tokens, JInt(MAX_TOKENS)),
                                           JInt(MAX_TOKENS), JInt(128), JInt(4096),
                                           {"int"})
                    temperature ==
                        validate_and_clamp(dict_get(d.temperature, JFloat(10)),
                                           JFloat(10), JFloat(0), JFloat(10),
                                           {"int", "float"})
                    spec_mode == chat_spec_mode(d)
                    original_history_len == Len(history_of(d))
                    conversation_history == chat_history(history_of(d), sc, ch)
                    prep == send_message_prepare(user_message, output_format,
                                                 max_tokens, spec_mode,
                                                 conversation_history, temperature)
                IN  /\ call' = [made |-> TRUE, user_message |-> user_message,
                                output_format |-> output_format,
                                max_tokens |-> max_tokens, spec_mode |-> spec_mode,
                                conversation_history |-> conversation_history,
                                temperature |-> temperature,
                                original_history_len |-> original_history_len,
                                compress |-> sc]
                    /\ calls' = [calls EXCEPT
                                   !.should_compress = @ + 1,
                                   !.compress_history = @ + (IF sc THEN 1 ELSE 0),
                                   !.send_message = @ + 1,
                                   !.create = @ + (IF prep.early THEN 0 ELSE 1)]
                    /\ api_params' = prep.api_params
                    /\ IF prep.early
                       THEN /\ response' = chat_respond(prep.result,
                                                        conversation_history,
                                                        original_history_len)
                            /\ pc' = "done"
                       ELSE /\ response' = NoResponse
                            /\ pc' = "upstream"

\* messages.create returns; send_message and chat run to their returns
messages_create_returns ==
    /\ pc = "upstream"
    /\ \E content \in Contents :
        /\ outcome' = [NoOutcome EXCEPT !.kind = "returned", !.content = content]
        /\ response' = chat_respond(send_message_returned(content),
                                    call.conversation_history,
                                    call.original_history_len)
    /\ pc' = "done"
    /\ UNCHANGED <<route, data, call, api_params, counted, calls>>

\* send_message calling messages.create again after a failure (up to three
\* calls) before it maps the error
messages_create_raises_retrying ==
    /\ pc = "upstream"
    /\ \E e \in Raised :
        IF calls.create < 3
        THEN /\ calls' = [calls EXCEPT !.create = @ + 1]
             /\ UNCHANGED <<pc, route, data, call, api_params, outcome, counted,
                            response>>
        ELSE /\ outcome' = [NoOutcome EXCEPT !.kind = "raised", !.cls = e.cls,
                                             !.detail = e.detail]
             /\ response' = chat_respond(handle_exception(e.cls, e.detail),
                                         call.conversation_history,
                                         call.original_history_len)
             /\ pc' = "done"
             /\ UNCHANGED <<route, data, call, api_params, counted, calls>>

\* messages.create raises; the except clauses of send_message map it
messages_create_raises ==
    /\ pc = "upstream"
    /\ \E e \in Raised :
        /\ outcome' = [NoOutcome EXCEPT !.kind = "raised", !.cls = e.cls,
                                        !.detail = e.detail]
        /\ response' = chat_respond(handle_exception(e.cls, e.detail),
                                    call.conversation_history,
                                    call.original_history_len)
    /\ pc' = "done"
    /\ UNCHANGED <<route, data, call, api_params, counted, calls>>

(* ------------------------------------------------------------------ *)
(* App.py: POST /api/count_tokens                                      *)
(* ------------------------------------------------------------------ *)

\* the message array count_tokens builds for request d
count_tokens_messages(d) == build_messages(history_of(d), strip(message_of(d).s))

count_tokens ==
    /\ pc = "idle"
    /\ \E d \in CountRequests :
        /\ route' = "count_tokens"
        /\ data' = d
        /\ pc' = "done"
        /\ UNCHANGED <<call, api_params, outcome>>
        /\ IF d.message.t = "null"
           THEN \* None.strip() raises inside the try: str(e) goes to the caller
                /\ response' = ErrorResponse(<<"AttributeError">>,
                                             HTTP_INTERNAL_SERVER_ERROR)
                /\ UNCHANGED <<counted, calls>>
           ELSE IF strip(message_of(d).s) = <<>>
           THEN /\ response' = ErrorResponse(ERROR_EMPTY_MESSAGE, HTTP_BAD_REQUEST)
                /\ UNCHANGED <<counted, calls>>
           ELSE LET output_format ==
                        dict_get(d.output_format, [t |-> "str", s |-> "default"]).s
                    spec_mode == dict_get(d.spec_mode, JBool(FALSE))
                    system_prompt == get_system_prompt(output_format, spec_mode)
                    messages == count_tokens_messages(d)
                IN  IF system_prompt.raises
                    THEN /\ response' = ErrorResponse(system_prompt.text,
                                                      HTTP_INTERNAL_SERVER_ERROR)
                         /\ UNCHANGED <<counted, calls>>
                    ELSE \E r \in TokenCounter_count_tokens(system_prompt.text,
                                                            messages) :
                         /\ counted' = [called |-> TRUE,
                                        system_prompt |-> system_prompt.text,
                                        messages |-> messages]
                         /\ calls' = [calls EXCEPT !.count_tokens = @ + 1]
                         /\ response' =
                              IF r.raises
                              THEN ErrorResponse(<<"counting failure">>,
                                                 HTTP_INTERNAL_SERVER_ERROR)
                              ELSE [NoResponse EXCEPT
                                      !.status = HTTP_OK,
                                      !.keys = {"input_tokens"},
                                      !.input_tokens = r.n]

\* the response is sent; the server waits for the next request, holding nothing
next_request ==
    /\ pc = "done"
    /\ pc' = "idle"
    /\ route' = "none"
    /\ data' = NoRequest
    /\ call' = NoCall
    /\ api_params' = NoParams
    /\ outcome' = NoOutcome
    /\ counted' = NoCounted
    /\ calls' = NoCalls
    /\ response' = NoResponse

Next ==
    \/ chat
    \/ messages_create_returns
    \/ messages_create_raises
    \/ count_tokens
    \/ next_request

Spec == Init /\ [][Next]_vars

\* messages.create is a blocking call that ends: the provider answers, or the
\* HTTP client's own timeout raises; send_message and chat then run to their
\* returns without waiting on anything else
FairSpec ==
    Spec /\ WF_vars(messages_create_returns \/ messages_create_raises)

(* ------------------------------------------------------------------ *)
(* Properties                                                          *)
(* ------------------------------------------------------------------ *)

\* the request's message is absent, empty or all whitespace
BlankMessage(d) ==
    \/ d.message.t = "absent"
    \/ d.message.t = "str" /\ \A i \in 1..Len(d.message.s) : d.message.s[i] = " "

\* the request's message is a text with something other than whitespace in it
NonBlankMessage(d) ==
    d.message.t = "str" /\ \E i \in 1..Len(d.message.s) : d.message.s[i] # " "

ChatDone == route = "chat" /\ pc = "done"

\* C1: on /api/chat and /api/count_tokens a request whose message is absent,
\* empty or all whitespace is answered 400 with the empty-message text,
\* whatever its other fields, and nothing downstream is invoked for it:
\* no send_message, no compressor, no token counter, no provider call.
C1_BlankMessageRejected ==
    (route \in {"chat", "count_tokens"} /\ BlankMessage(data)) =>
        /\ pc = "done"
        /\ response.status = 400
        /\ response.keys = {"error"}
        /\ response.error = ERROR_EMPTY_MESSAGE
        /\ calls = NoCalls
        /\ ~call.made
        /\ ~api_params.sent
        /\ ~counted.called

C1_Witness ==
    /\ ChatDone
    /\ data.message = [t |-> "str", s |-> <<" ">>]
    /\ data.spec_mode = JBool(TRUE)
    /\ data.conversation_history.t = "list"
    /\ Len(data.conversation_history.items) = MaxHistLen
    /\ response.status = 400

\* C2: for a chat request with a non-blank message and any JSON max_tokens,
\* the max_tokens handed to send_message is a number in [128, 4096]:
\* max(128, min(4096, v)) when the supplied v is of integer type, else 1024.
C2_MaxTokensInRange ==
    (route = "chat" /\ call.made) =>
        /\ call.max_tokens.t = "int"
        /\ call.max_tokens.n >= 128
        /\ call.max_tokens.n <= 4096
        /\ call.max_tokens.n =
              IF data.max_tokens.t = "int"
              THEN (IF data.max_tokens.n < 128 THEN 128
                    ELSE IF data.max_tokens.n > 4096 THEN 4096
                    ELSE data.max_tokens.n)
              ELSE 1024

\* C3: for a chat request with a non-blank message and any JSON temperature,
\* the temperature handed to send_message is a floating-point number in
\* [0.0, 1.0]: the supplied value clamped and coerced to a real when it is
\* numeric (integer or floating-point), and 1.0 when absent or non-numeric.
C3_TemperatureRealInRange ==
    (route = "chat" /\ call.made) =>
        /\ call.temperature.t = "float"
        /\ call.temperature.n >= 0
        /\ call.temperature.n <= 10
        /\ call.temperature.n =
              IF data.temperature.t \in {"int", "float"}
              THEN (IF Tenths(data.temperature) < 0 THEN 0
                    ELSE IF Tenths(data.temperature) > 10 THEN 10
                    ELSE Tenths(data.temperature))
              ELSE 10

\* C4: whatever the provider call raises, /api/chat answers with exactly the
\* documented status and body, whatever the other request fields are:
\* authentication -> 500 and the invalid-key text, rate limit -> 429 and the
\* rate-limit text, connection -> 503 and the connection text, another API
\* error -> 500 and the API-error prefix with the raw detail, anything else ->
\* 500 and the server-error prefix with the raw detail.
C4_FailureMapping ==
    (ChatDone /\ outcome.kind = "raised") =>
        /\ response.keys = {"error"}
        /\ CASE outcome.cls = "AuthenticationError" ->
                    response.status = 500 /\ response.error = ERROR_INVALID_API_KEY
             [] outcome.cls = "RateLimitError" ->
                    response.status = 429 /\ response.error = ERROR_RATE_LIMIT
             [] outcome.cls \in {"APIConnectionError", "APITimeoutError"} ->
                    response.status = 503 /\ response.error = ERROR_CONNECTION
             [] outcome.cls = "BadRequestError" ->
                    /\ response.status = 500
                    /\ response.error = <<"API_ERROR_PREFIX">> \o outcome.detail
             [] OTHER ->
                    /\ response.status = 500
                    /\ response.error = <<"SERVER_ERROR_PREFIX">> \o outcome.detail

C4_Witness ==
    /\ ChatDone
    /\ outcome.kind = "raised"
    /\ outcome.cls = "RateLimitError"
    /\ data.output_format.s = "xml"
    /\ data.max_tokens = JInt(100000)
    /\ response.status = 429

ValidTurn(e) == e.role \in {"user", "assistant"} /\ e.content # <<>>

\* t is s without its leading and trailing whitespace
IsTrimOf(t, s) ==
    \E i \in 0..Len(s) : \E j \in 0..(Len(s) - i) :
        /\ t = SubSeq(s, i + 1, Len(s) - j)
        /\ \A k \in 1..i : s[k] = " "
        /\ \A k \in (Len(s) - j + 1)..Len(s) : s[k] = " "
        /\ t # <<>> => (t[1] # " " /\ t[Len(t)] # " ")

\* C5: the message list send_message sends upstream is exactly the history
\* entries it was given whose role is user or assistant and whose content is
\* non-empty, in their order, each reduced to {role, content}, followed by
\* one user turn carrying the trimmed new message.
C5_UpstreamMessages ==
    (route = "chat" /\ api_params.sent) =>
        LET valid == SelectSeq(call.conversation_history, ValidTurn)
            sent == api_params.messages
        IN  /\ Len(sent) = Len(valid) + 1
            /\ \A i \in 1..Len(valid) :
                  sent[i] = [role |-> valid[i].role, content |-> valid[i].content]
            /\ sent[Len(sent)].role = "user"
            /\ IsTrimOf(sent[Len(sent)].content, data.message.s)

C5_Witness ==
    /\ route = "chat"
    /\ api_params.sent
    /\ data.message.s = <<" ", "hi", " ">>
    /\ Len(call.conversation_history) = 2
    /\ call.conversation_history[1].role = "system"
    /\ call.conversation_history[2].extra = "timestamp"
    /\ Len(api_params.messages) = 2

\* C6 as stated: for every chat request with a non-blank message, if
\* should_compress is false the history sent is the request's and the
\* response carries compression_applied = false and no compressed_history;
\* if it is true the response carries compression_applied = true and a
\* compressed_history with strictly fewer turns, the one sent upstream.
C6_CompressionSignalled ==
    (ChatDone /\ NonBlankMessage(data)) =>
        IF ~call.compress
        THEN /\ call.conversation_history = history_of(data)
             /\ "compression_applied" \in response.keys
             /\ response.compression_applied = FALSE
             /\ "compressed_history" \notin response.keys
        ELSE /\ "compression_applied" \in response.keys
             /\ response.compression_applied = TRUE
             /\ "compressed_history" \in response.keys
             /\ Len(response.compressed_history) < Len(history_of(data))
             /\ response.compressed_history = call.conversation_history

\* C6, amended: the history handed to send_message is the request's when
\* should_compress is false and a strictly shorter one when it is true; and
\* whenever the adapter returns no error (status 200) the response carries
\* compression_applied = false and no compressed_history in the first case,
\* compression_applied = true and that shorter history as compressed_history
\* in the second. An error response carries neither key.
C6_CompressionSignalledOnSuccess ==
    (ChatDone /\ NonBlankMessage(data)) =>
        /\ IF ~call.compress
           THEN call.conversation_history = history_of(data)
           ELSE Len(call.conversation_history) < Len(history_of(data))
        /\ response.status = 200 =>
              IF ~call.compress
              THEN /\ "compression_applied" \in response.keys
                   /\ response.compression_applied = FALSE
                   /\ "compressed_history" \notin response.keys
              ELSE /\ "compression_applied" \in response.keys
                   /\ response.compression_applied = TRUE
                   /\ "compressed_history" \in response.keys
                   /\ Len(response.compressed_history) < Len(history_of(data))
                   /\ response.compressed_history = call.conversation_history
        /\ response.status # 200 =>
              response.keys \cap {"compression_applied", "compressed_history"} = {}

C6_Witness ==
    /\ ChatDone
    /\ call.compress
    /\ response.status = 200
    /\ Len(history_of(data)) = 2
    /\ response.compressed_history = <<SummaryTurn>>
    /\ response.compression_applied

\* C7 as stated: a chat request with a non-empty message is answered either
\* 200 with a non-empty reply and no error key, or a mapped 4xx/5xx with a
\* non-empty error and no reply key; never both keys, neither, or 200 with
\* an error.
C7_ReplyXorError ==
    (ChatDone /\ data.message.t = "str" /\ data.message.s # <<>>) =>
        \/ /\ response.status = 200
           /\ "reply" \in response.keys
           /\ response.reply # <<>>
           /\ "error" \notin response.keys
        \/ /\ response.status \in {400, 429, 500, 503}
           /\ "error" \in response.keys
           /\ response.error # <<>>
           /\ "reply" \notin response.keys

\* C7, amended: a chat request with a non-empty message is answered either
\* 200 with a reply key and no error key, the reply being the text of the
\* provider's first content block as returned (empty when that text is
\* empty), or a mapped 4xx/5xx with a non-empty error and no reply key.
C7_ReplyKeyXorError ==
    (ChatDone /\ data.message.t = "str" /\ data.message.s # <<>>) =>
        \/ /\ response.status = 200
           /\ "reply" \in response.keys
           /\ "error" \notin response.keys
           /\ outcome.kind = "returned"
           /\ outcome.content # <<>>
           /\ response.reply = outcome.content[1]
        \/ /\ response.status \in {400, 429, 500, 503}
           /\ "error" \in response.keys
           /\ response.error # <<>>
           /\ "reply" \notin response.keys

C7_Witness ==
    /\ ChatDone
    /\ data.message.s = <<"hi">>
    /\ outcome.kind = "returned"
    /\ outcome.content = << <<>> >>
    /\ response.status = 200
    /\ response.reply = <<>>

\* C8: the upstream request carries stop_sequences holding exactly the
\* end-of-specification marker when the request's spec_mode is the boolean
\* true, and no stop_sequences when spec_mode is false, absent or not a
\* boolean (truthy values such as 1 or "true" included).
C8_StopSequence ==
    (route = "chat" /\ api_params.sent) =>
        IF data.spec_mode = JBool(TRUE)
        THEN /\ api_params.has_stop_sequences
             /\ api_params.stop_sequences = <<SPEC_END_MARKER>>
        ELSE /\ ~api_params.has_stop_sequences
             /\ api_params.stop_sequences = <<>>

C8_Witness ==
    /\ route = "chat"
    /\ api_params.sent
    /\ data.spec_mode = JBool(TRUE)
    /\ api_params.stop_sequences = <<SPEC_END_MARKER>>
    /\ Len(call.conversation_history) >= 1

\* C9: for the same message, output_format, spec_mode and
\* conversation_history, the message array chat sends upstream equals,
\* element for element, the array count_tokens hands to the token counter.
C9_SameMessageArray ==
    (route = "chat" /\ api_params.sent) =>
        api_params.messages = count_tokens_messages(data)

\* C10: an output_format outside {default, json, xml}, sent with a non-blank
\* message, falls back to the default system prompt and causes no error: the
\* prompt used is the one for default and the request proceeds to the
\* provider call (chat) or to the token counter (count_tokens).
C10_UnknownFormatFallsBack ==
    (/\ route \in {"chat", "count_tokens"}
     /\ NonBlankMessage(data)
     /\ data.output_format.t = "str"
     /\ data.output_format.s \notin {"default", "json", "xml"}) =>
        IF route = "chat"
        THEN /\ api_params.sent
             /\ api_params.system = get_system_prompt("default", JBool(FALSE)).text
        ELSE /\ counted.called
             /\ counted.system_prompt = get_system_prompt("default", JBool(FALSE)).text
             /\ response.status = 200 \/ response.error = <<"counting failure">>

\* the chat request in hand was answered with the provider's reply
CompletedWithReply ==
    /\ ChatDone
    /\ outcome.kind = "returned"
    /\ response.status = 200
    /\ "reply" \in response.keys

\* the chat request in hand was answered with a mapped error
CompletedWithMappedError ==
    /\ ChatDone
    /\ response.status \in {429, 500, 503}
    /\ response.keys = {"error"}
    /\ response.error # <<>>

\* C11: a chat request causes at most one provider call: a request rejected
\* by validation causes none; once the call is in flight the next step ends
\* the request without issuing another call, and a failure of any kind is
\* answered with the mapped error; and every accepted request eventually
\* completes with the provider's reply or a mapped error.
C11_AtMostOnceAndCompletes ==
    /\ [](/\ calls.create <= 1
          /\ calls.send_message <= 1
          /\ (route = "chat" /\ BlankMessage(data)) =>
                (calls.create = 0 /\ ~api_params.sent /\ pc = "done")
          /\ (route = "chat" /\ api_params.sent) => calls.create = 1)
    /\ [][(route = "chat" /\ pc = "upstream") =>
            /\ pc' = "done"
            /\ calls' = calls
            /\ api_params' = api_params
            /\ outcome'.kind = "raised" =>
                  (/\ response'.status \in {429, 500, 503}
                   /\ response'.keys = {"error"})]_vars
    /\ ((route = "chat" /\ pc = "upstream")
            ~> (CompletedWithReply \/ CompletedWithMappedError))

C11_Witness ==
    /\ ChatDone
    /\ outcome.kind = "raised"
    /\ outcome.cls = "APIConnectionError"
    /\ calls.create = 1
    /\ response.status = 503
    /\ response.keys = {"error"}
====
